---- MODULE Spec2Model ----
(***************************************************************************)
(* Model of TMSim.py: the sparse Tape, the Program rule store with its     *)
(* tiered wildcard lookup, and the Machine execution engine.               *)
(*                                                                         *)
(* Strings of the program (state labels, input words, the initial-state   *)
(* field) are sequences of one-character strings, so that strip, lower,    *)
(* split and startswith are computed on characters.  Formatted messages    *)
(* are sequences of their literal and interpolated parts.  Python's None   *)
(* is the empty sequence where the value is otherwise a sequence, and the  *)
(* record NoProgram for the Program reference.                             *)
(***************************************************************************)
EXTENDS Integers, Sequences, FiniteSets, TLC

VARIABLES
    prog,       \* Machine.prog: the bound Program, or NoProgram
    tapes,      \* Machine.tapes: sequence of Tape records [cells, head]
    state,      \* Machine.state
    steps,      \* Machine.steps
    halted,     \* Machine.halted
    halt_msg,   \* Machine.halt_msg
    ret,        \* value returned by the last Machine.step: <<>> or <<ins>>
    lastOp,     \* the last method that ran
    origin,     \* arguments of the reset the tapes stem from, <<>> if none
    store,      \* a Program under construction (Program.add), or NoProgram
    query,      \* (state, reads) of the last lookup on store, <<>> if none
    choices,    \* the list Program.get_next returned for query
    picked,     \* <<choices[0]>> as Machine.step takes it, <<>> if no choice
    text,       \* the program text handed to Program.parse_from_text
    source_text,\* Program.source_text of store
    raised,     \* the TMParseError the last parse_from_text raised, or <<>>
    dirty,      \* App._dirty
    job,        \* App._job: <<>>, or <<id>> of the callback it refers to
    pending,    \* ids of the _run_loop callbacks Tk holds scheduled
    btn_run,    \* text of App.btn_run
    source,     \* content of the editor App.source
    tapes_var   \* App.tapes_var, as a number

vars == <<prog, tapes, state, steps, halted, halt_msg, ret, lastOp, origin,
          store, query, choices, picked, text, source_text, raised,
          dirty, job, pending, btn_run, source, tapes_var>>

machineVars == <<prog, tapes, state, steps, halted, halt_msg, ret, lastOp, origin>>
lookupVars == <<store, query, choices, picked>>
parseVars == <<text, source_text, raised>>
appVars == <<dirty, job, pending, btn_run, source, tapes_var>>

----------------------------------------------------------------------------
(* Bounds *)

MaxSteps == 4
MaxWordLen == 2
MaxRules == 4
MaxLines == 2

----------------------------------------------------------------------------
(* Characters and strings *)

BLANK == "_"

Whitespace == {" ", "\t"}

UpperToLower ==
    [c \in {"A","B","C","D","E","F","G","H","I","J","K","L","M",
            "N","O","P","Q","R","S","T","U","V","W","X","Y","Z"} |->
        CASE c = "A" -> "a" [] c = "B" -> "b" [] c = "C" -> "c" [] c = "D" -> "d"
          [] c = "E" -> "e" [] c = "F" -> "f" [] c = "G" -> "g" [] c = "H" -> "h"
          [] c = "I" -> "i" [] c = "J" -> "j" [] c = "K" -> "k" [] c = "L" -> "l"
          [] c = "M" -> "m" [] c = "N" -> "n" [] c = "O" -> "o" [] c = "P" -> "p"
          [] c = "Q" -> "q" [] c = "R" -> "r" [] c = "S" -> "s" [] c = "T" -> "t"
          [] c = "U" -> "u" [] c = "V" -> "v" [] c = "W" -> "w" [] c = "X" -> "x"
          [] c = "Y" -> "y" [] c = "Z" -> "z"]

LowerChar(c) == IF c \in DOMAIN UpperToLower THEN UpperToLower[c] ELSE c

\* str.lower()
Lower(s) == [i \in 1..Len(s) |-> LowerChar(s[i])]

RECURSIVE LStrip(_)
LStrip(s) == IF s # <<>> /\ Head(s) \in Whitespace THEN LStrip(Tail(s)) ELSE s

RECURSIVE RStrip(_)
RStrip(s) ==
    IF s # <<>> /\ s[Len(s)] \in Whitespace THEN RStrip(SubSeq(s, 1, Len(s) - 1)) ELSE s

\* str.strip()
Strip(s) == RStrip(LStrip(s))

\* str.startswith(p)
StartsWith(s, p) == Len(s) >= Len(p) /\ SubSeq(s, 1, Len(p)) = p

\* the leading run of non-whitespace characters of s
RECURSIVE TakeToken(_)
TakeToken(s) ==
    IF s = <<>> \/ Head(s) \in Whitespace THEN <<>>
    ELSE <<Head(s)>> \o TakeToken(Tail(s))

\* str.split(): the whitespace-separated tokens of s, in order
RECURSIVE Split(_)
Split(s) ==
    LET t == LStrip(s) IN
    IF t = <<>> THEN <<>>
    ELSE LET tok == TakeToken(t) IN
         <<tok>> \o Split(SubSeq(t, Len(tok) + 1, Len(t)))

\* str.replace(a, b) for single characters
Replace(s, a, b) == [i \in 1..Len(s) |-> IF s[i] = a THEN b ELSE s[i]]

----------------------------------------------------------------------------
(* Tape *)

EmptyMap == [x \in {} |-> x]

\* MOVE with the directions of l and r exchanged
MOVE_Mirrored == [m \in {"l", "r", "*", "s", "n"} |->
                    CASE m = "l" -> 1 [] m = "r" -> -1 [] OTHER -> 0]

MOVE == [m \in {"l", "r", "*", "s", "n"} |->
            CASE m = "l" -> -1 [] m = "r" -> 1 [] OTHER -> 0]

\* Tape.__init__
NewTape == [cells |-> EmptyMap, head |-> 0]

\* Tape.reset
TapeReset(t) == [cells |-> EmptyMap, head |-> 0]

\* Tape.read
TapeRead(t) == IF t.head \in DOMAIN t.cells THEN t.cells[t.head] ELSE BLANK

\* dict.pop(k, None)
Pop(m, k) == [x \in DOMAIN m \ {k} |-> m[x]]

\* dict[k] = v
Put(m, k, v) == [x \in DOMAIN m \cup {k} |-> IF x = k THEN v ELSE m[x]]

\* Tape.write storing every symbol, the blank included
TapeWrite_StoresBlank(t, sym) == [t EXCEPT !.cells = Put(t.cells, t.head, sym)]

\* Tape.write
TapeWrite(t, sym) ==
    IF sym = BLANK THEN [t EXCEPT !.cells = Pop(t.cells, t.head)]
    ELSE [t EXCEPT !.cells = Put(t.cells, t.head, sym)]

\* Tape.move (the model only moves with m.lower() in MOVE)
TapeMove(t, m) == [t EXCEPT !.head = t.head + MOVE[LowerChar(m)]]

\* load_leftmost without the skip of blank characters
load_leftmost_KeepsBlank(t, w) ==
    LET s0 == Replace(w, " ", BLANK)
        s  == IF s0 = <<>> THEN <<BLANK>> ELSE s0
    IN  [cells |-> [i \in 0..(Len(s) - 1) |-> s[i + 1]], head |-> 0]

\* Tape.load_leftmost
load_leftmost(t, w) ==
    LET s0 == Replace(w, " ", BLANK)
        s  == IF s0 = <<>> THEN <<BLANK>> ELSE s0
        keep == {i \in 0..(Len(s) - 1) : s[i + 1] # BLANK}
    IN  [cells |-> [i \in keep |-> s[i + 1]], head |-> 0]

----------------------------------------------------------------------------
(* Instruction and Program (the rule store) *)

Instruction(cur, rd, wr, mv, nxt, bp, line) ==
    [cur_state |-> cur, read |-> rd, write |-> wr, move |-> mv,
     next_state |-> nxt, breakpoint |-> bp, line_no |-> line]

NoProgram == [tapes |-> 0, map1 |-> EmptyMap, map2 |-> EmptyMap]

\* Program.__init__
NewProgram(n) == [tapes |-> n, map1 |-> EmptyMap, map2 |-> EmptyMap]

\* is_halt_state without the lower()
is_halt_state_CaseSensitive(st) == StartsWith(Strip(st), <<"h", "a", "l", "t">>)

\* Program.is_halt_state
is_halt_state(st) == StartsWith(Lower(Strip(st)), <<"h", "a", "l", "t">>)

\* dict.setdefault(k, d), as the dictionary it leaves
SetDefault(m, k, d) == IF k \in DOMAIN m THEN m ELSE Put(m, k, d)

\* Program.add
add(p, ins) ==
    IF p.tapes = 1
    THEN LET outer == SetDefault(p.map1, ins.cur_state, EmptyMap)
             inner == SetDefault(outer[ins.cur_state], ins.read[1], <<>>)
             key   == ins.read[1]
         IN  [p EXCEPT !.map1 =
                Put(outer, ins.cur_state, Put(inner, key, Append(inner[key], ins)))]
    ELSE LET outer == SetDefault(p.map2, ins.cur_state, EmptyMap)
             key   == <<ins.read[1], ins.read[2]>>
             inner == SetDefault(outer[ins.cur_state], key, <<>>)
         IN  [p EXCEPT !.map2 =
                Put(outer, ins.cur_state, Put(inner, key, Append(inner[key], ins)))]

\* _get_1 with the (*, sym) test placed before the (state, *) test
get_1_SymBeforeState(p, st, sym) ==
    IF st \in DOMAIN p.map1 /\ sym \in DOMAIN p.map1[st] THEN p.map1[st][sym]
    ELSE IF <<"*">> \in DOMAIN p.map1 /\ sym \in DOMAIN p.map1[<<"*">>]
         THEN p.map1[<<"*">>][sym]
    ELSE IF st \in DOMAIN p.map1 /\ "*" \in DOMAIN p.map1[st] THEN p.map1[st]["*"]
    ELSE IF <<"*">> \in DOMAIN p.map1 /\ "*" \in DOMAIN p.map1[<<"*">>]
         THEN p.map1[<<"*">>]["*"]
    ELSE <<>>

\* Program._get_1
get_1(p, st, sym) ==
    IF st \in DOMAIN p.map1 /\ sym \in DOMAIN p.map1[st] THEN p.map1[st][sym]
    ELSE IF st \in DOMAIN p.map1 /\ "*" \in DOMAIN p.map1[st] THEN p.map1[st]["*"]
    ELSE IF <<"*">> \in DOMAIN p.map1 /\ sym \in DOMAIN p.map1[<<"*">>]
         THEN p.map1[<<"*">>][sym]
    ELSE IF <<"*">> \in DOMAIN p.map1 /\ "*" \in DOMAIN p.map1[<<"*">>]
         THEN p.map1[<<"*">>]["*"]
    ELSE <<>>

\* pick_for_state with tier2 extended by (*, r2) before (r1, *)
pick_for_state_Swapped(p, st, r1, r2) ==
    IF st \notin DOMAIN p.map2 \/ DOMAIN p.map2[st] = {} THEN <<>>
    ELSE LET m == p.map2[st]
             tier2 == (IF <<"*", r2>> \in DOMAIN m THEN m[<<"*", r2>>] ELSE <<>>)
                      \o (IF <<r1, "*">> \in DOMAIN m THEN m[<<r1, "*">>] ELSE <<>>)
         IN  IF <<r1, r2>> \in DOMAIN m THEN m[<<r1, r2>>]
             ELSE IF tier2 # <<>> THEN tier2
             ELSE IF <<"*", "*">> \in DOMAIN m THEN m[<<"*", "*">>]
             ELSE <<>>

\* Program._get_2.pick_for_state
pick_for_state(p, st, r1, r2) ==
    IF st \notin DOMAIN p.map2 \/ DOMAIN p.map2[st] = {} THEN <<>>
    ELSE LET m == p.map2[st]
             tier2 == (IF <<r1, "*">> \in DOMAIN m THEN m[<<r1, "*">>] ELSE <<>>)
                      \o (IF <<"*", r2>> \in DOMAIN m THEN m[<<"*", r2>>] ELSE <<>>)
         IN  IF <<r1, r2>> \in DOMAIN m THEN m[<<r1, r2>>]
             ELSE IF tier2 # <<>> THEN tier2
             ELSE IF <<"*", "*">> \in DOMAIN m THEN m[<<"*", "*">>]
             ELSE <<>>

\* _get_2 preferring an exact (r1, r2) rule of the wildcard state to a
\* wildcarded rule of the live state
get_2_ExactFirst(p, st, r1, r2) ==
    LET res == pick_for_state(p, st, r1, r2)
        any == pick_for_state(p, <<"*">>, r1, r2)
    IN  IF res # <<>> /\ res[1].read = <<r1, r2>> THEN res
        ELSE IF any # <<>> /\ any[1].read = <<r1, r2>> THEN any
        ELSE IF res # <<>> THEN res ELSE any

\* Program._get_2
get_2(p, st, r1, r2) ==
    LET res == pick_for_state(p, st, r1, r2)
    IN  IF res # <<>> THEN res ELSE pick_for_state(p, <<"*">>, r1, r2)

\* Program.get_next
get_next(p, st, reads) ==
    IF p.tapes = 1 THEN get_1(p, st, reads[1]) ELSE get_2(p, st, reads[1], reads[2])

\* the registration of a list of rules on a fresh Program, each rule taking
\* its position in the list as line_no (parse_from_text on rule lines only)
RECURSIVE AddAll(_, _, _)
AddAll(p, rules, k) ==
    IF k > Len(rules) THEN p
    ELSE AddAll(add(p, [rules[k] EXCEPT !.line_no = k - 1]), rules, k + 1)

ProgramOf(n, rules) == AddAll(NewProgram(n), rules, 1)

----------------------------------------------------------------------------
(* Machine *)

InitialMsg == <<"Load or type a program, then Reset.">>
NoProgramMsg == <<"No program loaded.">>
HaltStateMsg(st) == <<"Halted (entered state '", st, "').">>
\* the no-rule reason without the symbols read
NoRuleMsg_StateOnly(st, rd) == <<"Halted (no rule for state '", st, "').">>
NoRuleMsg(st, rd) == <<"Halted (no rule for state '", st, "' reading ", rd, ").">>
BreakpointMsg(line) == <<"Paused at breakpoint (line ", line, ").">>

\* Machine.reads
reads_of(ts) == [i \in 1..Len(ts) |-> TapeRead(ts[i])]

\* the last choice instead of the first
StepChoice_Last(c) == c[Len(c)]

\* choices[0] in Machine.step
StepChoice(c) == c[1]

\* new_state in Machine.step
NewState(st, ins) == IF ins.next_state = <<"*">> THEN st ELSE ins.next_state

\* a wildcard write that blanks the cell instead of keeping the symbol read
WriteAll_WildcardBlanks(ts, rd, ins) ==
    [i \in 1..Len(ts) |->
        TapeWrite(ts[i], IF ins.write[i] = "*" THEN BLANK ELSE ins.write[i])]

\* the two tape loops of Machine.step: every tape is written, then every
\* head is moved
WriteAll(ts, rd, ins) ==
    [i \in 1..Len(ts) |->
        TapeWrite(ts[i], IF ins.write[i] = "*" THEN rd[i] ELSE ins.write[i])]

MoveAll(ts, ins) == [i \in 1..Len(ts) |-> TapeMove(ts[i], ins.move[i])]

\* the halt reason Machine.step leaves after applying ins and entering st
\* (the breakpoint test, then the halt-state test)
AppliedHalted(ins, st) == ins.breakpoint \/ is_halt_state(st)

\* the halt-state test skipped once the breakpoint test has halted the engine
AppliedMsg_BreakpointKept(ins, st, old) ==
    IF ins.breakpoint THEN BreakpointMsg(ins.line_no + 1)
    ELSE IF is_halt_state(st) THEN HaltStateMsg(st) ELSE old

\* the second test of Machine.step made on halted instead of the new state
AppliedMsg_HaltedTest(ins, st, old) ==
    IF ins.breakpoint \/ is_halt_state(st) THEN HaltStateMsg(st) ELSE old

AppliedMsg(ins, st, old) ==
    LET m1 == IF ins.breakpoint THEN BreakpointMsg(ins.line_no + 1) ELSE old
    IN  IF is_halt_state(st) THEN HaltStateMsg(st) ELSE m1

\* the first token of the initial-state field, "0" if there is none
InitialState(txt) ==
    LET toks == Split(Strip(txt)) IN IF toks = <<>> THEN <<"0">> ELSE toks[1]

\* the tapes Machine.reset leaves
ResetTapes(ts, w) ==
    LET cleared == [i \in 1..Len(ts) |-> TapeReset(ts[i])]
        loaded  == [cleared EXCEPT ![1] = load_leftmost(cleared[1], w)]
    IN  IF Len(loaded) = 2 THEN [loaded EXCEPT ![2] = TapeReset(loaded[2])]
        ELSE loaded

\* Machine.__init__
MachineInit ==
    /\ prog = NoProgram
    /\ tapes = <<>>
    /\ state = <<"0">>
    /\ steps = 0
    /\ halted = TRUE
    /\ halt_msg = InitialMsg
    /\ ret = <<>>
    /\ lastOp = "init"
    /\ origin = <<>>

\* the Machine object, as a record of its fields
Mach ==
    [prog |-> prog, tapes |-> tapes, state |-> state, steps |-> steps,
     halted |-> halted, halt_msg |-> halt_msg]

\* the Machine object after the transition
MachBecomes(m) ==
    /\ prog' = m.prog
    /\ tapes' = m.tapes
    /\ state' = m.state
    /\ steps' = m.steps
    /\ halted' = m.halted
    /\ halt_msg' = m.halt_msg

\* configure keeping the tapes when their number already fits
configure_ReusesTapes(m, p) ==
    [m EXCEPT !.prog = p,
              !.tapes = IF Len(m.tapes) = p.tapes THEN m.tapes
                        ELSE [i \in 1..p.tapes |-> NewTape]]

\* configure that also clears the halted flag
configure_ClearsHalted(m, p) ==
    [m EXCEPT !.prog = p, !.tapes = [i \in 1..p.tapes |-> NewTape],
              !.halted = FALSE, !.halt_msg = <<>>]

\* Machine.configure
configure(m, p) ==
    [m EXCEPT !.prog = p, !.tapes = [i \in 1..p.tapes |-> NewTape]]

\* Machine.reset
reset(m, w, txt) ==
    IF m.prog = NoProgram
    THEN [m EXCEPT !.halted = TRUE, !.halt_msg = NoProgramMsg]
    ELSE [m EXCEPT !.tapes = ResetTapes(m.tapes, w),
                   !.state = InitialState(txt),
                   !.steps = 0,
                   !.halted = FALSE,
                   !.halt_msg = <<>>]

\* the early return without the halted test
StepSkips_UnboundOnly(m) == m.prog = NoProgram

\* the early return of Machine.step
StepSkips(m) == m.halted \/ m.prog = NoProgram

\* Machine.step: the Machine it leaves (m) and the value it returns (ret)
step(m) ==
    IF StepSkips(m) THEN [m |-> m, ret |-> <<>>]
    ELSE IF is_halt_state(m.state)
    THEN [m |-> [m EXCEPT !.halted = TRUE, !.halt_msg = HaltStateMsg(m.state)],
          ret |-> <<>>]
    ELSE LET rd == reads_of(m.tapes)
             ch == get_next(m.prog, m.state, rd)
         IN  IF ch = <<>>
             THEN [m |-> [m EXCEPT !.halted = TRUE,
                                   !.halt_msg = NoRuleMsg(m.state, rd)],
                   ret |-> <<>>]
             ELSE LET ins == StepChoice(ch)
                      new_state == NewState(m.state, ins)
                  IN  [m |-> [m EXCEPT
                                !.tapes = MoveAll(WriteAll(m.tapes, rd, ins), ins),
                                !.state = new_state,
                                !.steps = m.steps + 1,
                                !.halted = (m.halted \/ AppliedHalted(ins, new_state)),
                                !.halt_msg = AppliedMsg(ins, new_state, m.halt_msg)],
                       ret |-> <<ins>>]

\* a call of Machine.configure
Configure(p) ==
    /\ MachBecomes(configure(Mach, p))
    /\ ret' = <<>>
    /\ lastOp' = "configure"
    /\ origin' = <<>>
    /\ UNCHANGED lookupVars
    /\ UNCHANGED parseVars
    /\ UNCHANGED appVars

\* a call of Machine.reset
Reset(w, txt) ==
    /\ MachBecomes(reset(Mach, w, txt))
    /\ ret' = <<>>
    /\ lastOp' = "reset"
    /\ origin' = IF prog = NoProgram THEN origin ELSE <<w, txt>>
    /\ UNCHANGED lookupVars
    /\ UNCHANGED parseVars
    /\ UNCHANGED appVars

\* a call of Machine.step
Step ==
    /\ halted \/ steps < MaxSteps
    /\ LET r == step(Mach)
       IN  /\ MachBecomes(r.m)
           /\ ret' = r.ret
    /\ lastOp' = "step"
    /\ UNCHANGED origin
    /\ UNCHANGED lookupVars
    /\ UNCHANGED parseVars
    /\ UNCHANGED appVars

----------------------------------------------------------------------------
(* The programs and inputs the engine is run on *)

Q0 == <<"0">>
STAR == <<"*">>
HALT == <<"h", "a", "l", "t">>

\* DEFAULT_PROGRAM, its three rule lines
DEFAULT_RULES ==
    << Instruction(Q0, <<"0">>, <<"0">>, <<"r">>, Q0, FALSE, 0),
       Instruction(Q0, <<"1">>, <<"1">>, <<"r">>, Q0, FALSE, 0),
       Instruction(Q0, <<"_">>, <<"_">>, <<"*">>, HALT, FALSE, 0) >>

DefaultProgram == ProgramOf(1, DEFAULT_RULES)

\* one-rule 1-tape programs: every write, move and next-state form
OneTapeRules ==
    { Instruction(Q0, <<"*">>, <<w>>, <<m>>, n, FALSE, 0) :
        w \in {"0", "_", "*"}, m \in {"l", "r", "*"}, n \in {STAR, HALT, <<"q">>} }
    \cup
    { Instruction(Q0, <<"1">>, <<"*">>, <<"r">>, n, TRUE, 0) :
        n \in {STAR, <<"H", "A", "L", "T">>, <<"H", "a", "l", "t", "i", "n", "g">>} }

\* one-rule 2-tape programs
TwoTapeRules ==
    { Instruction(Q0, r, w, m, n, FALSE, 0) :
        r \in {<<"1", "_">>, <<"*", "*">>},
        w \in {<<"*", "1">>, <<"_", "*">>},
        m \in {<<"r", "l">>, <<"*", "R">>},
        n \in {STAR, HALT} }
    \cup
    { Instruction(STAR, <<"1", "*">>, <<"0", "1">>, <<"r", "r">>, n, TRUE, 0) :
        n \in {STAR, <<"h", "a", "l", "t", "-", "o", "k">>} }

\* a 1-tape program with rules under the wildcard state and a breakpoint
\* on its second line
FLIP_RULES ==
    << Instruction(STAR, <<"1">>, <<"0">>, <<"r">>, STAR, FALSE, 0),
       Instruction(Q0, <<"_">>, <<"1">>, <<"l">>, <<"q">>, TRUE, 0),
       Instruction(<<"q">>, <<"*">>, <<"*">>, <<"l">>, HALT, FALSE, 0) >>

\* a 2-tape program copying tape 1 to tape 2
COPY_RULES ==
    << Instruction(Q0, <<"1", "_">>, <<"*", "1">>, <<"r", "r">>, STAR, FALSE, 0),
       Instruction(Q0, <<"_", "*">>, <<"*", "*">>, <<"*", "l">>, <<"b">>, FALSE, 0),
       Instruction(<<"b">>, <<"*", "1">>, <<"_", "*">>, <<"l", "*">>, <<"H", "a", "l", "t">>, TRUE, 0) >>

Programs ==
    {DefaultProgram, ProgramOf(1, FLIP_RULES), ProgramOf(2, COPY_RULES)}
    \cup {ProgramOf(1, <<r>>) : r \in OneTapeRules}
    \cup {ProgramOf(2, <<r>>) : r \in TwoTapeRules}

WordAlphabet == {"1", "_", " "}

RECURSIVE WordsUpTo(_)
WordsUpTo(n) ==
    IF n = 0 THEN {<<>>}
    ELSE LET shorter == WordsUpTo(n - 1)
         IN  shorter \cup {Append(w, c) : w \in shorter, c \in WordAlphabet}

InputWords == WordsUpTo(MaxWordLen) \cup {<<"1", "0", "1">>}

InitialStateTexts ==
    { <<"0">>, <<>>, <<" ", "q", "\t", "0">>, <<"H", "a", "l", "t">> }

\* the text the editor holds after construction
DEFAULT_PROGRAM ==
    <<
       ";", " ", "E", "x", "a", "m", "p", "l", "e", " ", "1", "-", "t", "a",
       "p", "e", " ", "m", "a", "c", "h", "i", "n", "e", ":", " ", "s", "c",
       "a", "n", " ", "r", "i", "g", "h", "t", ",", " ", "t", "h", "e", "n",
       " ", "h", "a", "l", "t", "\n", ";", " ", "F", "o", "r", "m", "a",
       "t", " ", "(", "1", "-", "t", "a", "p", "e", ")", ":", " ", "s", "t",
       "a", "t", "e", " ", "r", "e", "a", "d", " ", "w", "r", "i", "t", "e",
       " ", "m", "o", "v", "e", " ", "n", "e", "x", "t", "\n", "\n", "0",
       " ", "0", " ", "0", " ", "r", " ", "0", "\n", "0", " ", "1", " ",
       "1", " ", "r", " ", "0", "\n", "0", " ", "_", " ", "_", " ", "*",
       " ", "h", "a", "l", "t", "\n"
    >>

\* App.__init__ and App._build
AppInit ==
    /\ dirty = TRUE
    /\ job = <<>>
    /\ pending = {}
    /\ btn_run = "Run"
    /\ source = DEFAULT_PROGRAM
    /\ tapes_var = 1

----------------------------------------------------------------------------
(* The engine specification *)

Init ==
    /\ MachineInit
    /\ store = NoProgram
    /\ query = <<>>
    /\ choices = <<>>
    /\ picked = <<>>
    /\ text = <<>>
    /\ source_text = <<>>
    /\ raised = <<>>
    /\ AppInit

DoConfigure == \E p \in Programs : Configure(p)

DoReset == \E w \in InputWords, txt \in InitialStateTexts : Reset(w, txt)

Next == DoConfigure \/ DoReset \/ Step

Spec == Init /\ [][Next]_vars

----------------------------------------------------------------------------
(* The rule-store specification: rules are registered one by one on a      *)
(* fresh Program and the store is queried as Machine.step queries it       *)

Range(f) == {f[x] : x \in DOMAIN f}

\* every Instruction registered in p
Registered(p) ==
    UNION {UNION {Range(p.map1[st][k]) : k \in DOMAIN p.map1[st]} : st \in DOMAIN p.map1}
    \cup
    UNION {UNION {Range(p.map2[st][k]) : k \in DOMAIN p.map2[st]} : st \in DOMAIN p.map2}

RuleCount(p) == Cardinality(Registered(p))

\* the rules offered for registration: every (state, read) key form
RuleShapes(n) ==
    IF n = 1
    THEN { Instruction(c, <<r>>, <<"*">>, <<"r">>, STAR, FALSE, 0) :
             c \in {Q0, STAR}, r \in {"1", "*"} }
    ELSE { Instruction(c, r, <<"*", "*">>, <<"r", "r">>, STAR, FALSE, 0) :
             c \in {Q0, STAR},
             r \in {<<"1", "_">>, <<"1", "*">>, <<"*", "_">>, <<"*", "*">>} }

QueryStates == {Q0, STAR, <<"q">>}

QueryReads(n) ==
    IF n = 1 THEN {<<"1">>, <<"_">>, <<"*">>}
    ELSE {<<"1", "_">>, <<"_", "1">>, <<"1", "*">>, <<"*", "_">>}

LookupInit ==
    /\ MachineInit
    /\ store \in {NewProgram(1), NewProgram(2)}
    /\ query = <<>>
    /\ choices = <<>>
    /\ picked = <<>>
    /\ text = <<>>
    /\ source_text = <<>>
    /\ raised = <<>>
    /\ AppInit

\* Program.add of the next rule line; a lookup made before it no longer
\* describes the store
AddRule(r) ==
    /\ RuleCount(store) < MaxRules
    /\ store' = add(store, [r EXCEPT !.line_no = RuleCount(store)])
    /\ query' = <<>>
    /\ choices' = <<>>
    /\ picked' = <<>>
    /\ UNCHANGED machineVars
    /\ UNCHANGED parseVars
    /\ UNCHANGED appVars

\* reads -> get_next -> choices[0], as in Machine.step
Lookup(st, rd) ==
    LET ch == get_next(store, st, rd)
    IN  /\ query' = <<st, rd>>
        /\ choices' = ch
        /\ picked' = IF ch = <<>> THEN <<>> ELSE <<StepChoice(ch)>>
        /\ UNCHANGED store
        /\ UNCHANGED machineVars
        /\ UNCHANGED parseVars
        /\ UNCHANGED appVars

DoAddRule == \E r \in RuleShapes(store.tapes) : AddRule(r)

DoLookup == \E st \in QueryStates, rd \in QueryReads(store.tapes) : Lookup(st, rd)

LookupNext == DoAddRule \/ DoLookup

LookupSpec == LookupInit /\ [][LookupNext]_vars

----------------------------------------------------------------------------
(* Vocabulary of the properties *)

\* the symbol a tape holds at position p
CellAt(t, p) == IF p \in DOMAIN t.cells THEN t.cells[p] ELSE BLANK

\* head displacement of a move slot
Delta(m) == CASE m \in {"l", "L"} -> -1 [] m \in {"r", "R"} -> 1 [] OTHER -> 0

RECURSIVE SortByLine(_)
SortByLine(S) ==
    IF S = {} THEN <<>>
    ELSE LET first == CHOOSE x \in S : \A y \in S : x.line_no <= y.line_no
         IN  <<first>> \o SortByLine(S \ {first})

\* the rules registered under the key (st, rd), in registration order
KeyList(p, st, rd) ==
    SortByLine({ins \in Registered(p) : ins.cur_state = st /\ ins.read = rd})

\* tok is the first whitespace-separated token of txt, "0" if txt has none
IsFirstToken(txt, tok) ==
    IF \A i \in 1..Len(txt) : txt[i] \in Whitespace
    THEN tok = <<"0">>
    ELSE \E i \in 1..Len(txt) : \E j \in i..Len(txt) :
            /\ \A k \in 1..(i - 1) : txt[k] \in Whitespace
            /\ \A k \in i..j : txt[k] \notin Whitespace
            /\ j = Len(txt) \/ txt[j + 1] \in Whitespace
            /\ tok = SubSeq(txt, i, j)

\* a step that is about to apply a rule: running, not in a halt state, and
\* the lookup finds a rule
StepApplies ==
    /\ ~halted
    /\ prog # NoProgram
    /\ ~is_halt_state(state)
    /\ get_next(prog, state, reads_of(tapes)) # <<>>

\* a step that is about to find no rule
StepFindsNoRule ==
    /\ ~halted
    /\ prog # NoProgram
    /\ ~is_halt_state(state)
    /\ get_next(prog, state, reads_of(tapes)) = <<>>

TapeOf101 == (0 :> "1") @@ (1 :> "0") @@ (2 :> "1")

ExampleRun ==
    /\ prog = DefaultProgram
    /\ origin = << <<"1", "0", "1">>, <<"0">> >>
    /\ halted

----------------------------------------------------------------------------
(* Properties of the engine, checked under Spec *)

\* the last call was a step that applied a breakpoint rule into a halt state
BreakpointIntoHalt ==
    /\ lastOp = "step"
    /\ ret # <<>>
    /\ ret[1].breakpoint
    /\ is_halt_state(state)

\* C1 (as claimed): after a step that applies a breakpoint-flagged rule whose
\* resulting state is a halt label, the engine is halted and the halt reason
\* is the breakpoint reason of that rule's line, not the halt-state reason.
C1_BreakpointReasonKept ==
    BreakpointIntoHalt =>
        /\ halted
        /\ halt_msg = BreakpointMsg(ret[1].line_no + 1)

\* C1 (amended): a step that applies a breakpoint-flagged rule whose resulting
\* state is a halt label leaves the engine halted with the entered-halt-state
\* reason for that state (it overwrites the breakpoint reason); the rule's
\* writes, moves, state update and step-counter increment have been applied.
C1_HaltStateReasonWins ==
    [][ (lastOp' = "step" /\ ret' # <<>> /\ ret'[1].breakpoint /\ is_halt_state(state'))
        => /\ halted'
           /\ halt_msg' = HaltStateMsg(state')
           /\ halt_msg' # BreakpointMsg(ret'[1].line_no + 1)
           /\ state' = ret'[1].next_state
           /\ steps' = steps + 1
           /\ \A i \in 1..Len(tapes) :
                /\ tapes'[i].head = tapes[i].head + Delta(ret'[1].move[i])
                /\ CellAt(tapes'[i], tapes[i].head) =
                     (IF ret'[1].write[i] = "*" THEN CellAt(tapes[i], tapes[i].head)
                      ELSE ret'[1].write[i]) ]_vars

C1_Witness ==
    /\ BreakpointIntoHalt
    /\ halted
    /\ halt_msg = HaltStateMsg(state)
    /\ steps >= 1

\* C2 (as claimed): DEFAULT_PROGRAM, reset("101", "0"), stepped until halted:
\* halted with the entered-halt-state reason for 'halt', step counter 3, tape
\* still 1,0,1 at positions 0,1,2, head at 3.
C2_ExampleHaltsAtThree ==
    ExampleRun =>
        /\ halt_msg = HaltStateMsg(HALT)
        /\ steps = 3
        /\ tapes[1].cells = TapeOf101
        /\ tapes[1].head = 3

\* C2 (amended): the same run halts with the entered-halt-state reason for
\* 'halt', tape 1,0,1 at positions 0,1,2 and head at 3, with step counter 4:
\* three scanning steps and the step that applies `0 _ _ * halt`.
C2_ExampleHaltsAtFour ==
    ExampleRun =>
        /\ halt_msg = HaltStateMsg(HALT)
        /\ state = HALT
        /\ steps = 4
        /\ Len(tapes) = 1
        /\ tapes[1].cells = TapeOf101
        /\ tapes[1].head = 3

C2_Witness == ExampleRun /\ steps = 4 /\ lastOp = "step" /\ ret # <<>>

\* C7: step() on a halted or unbound engine returns nothing and changes no
\* engine field and no tape; and the engine leaves halted only through
\* reset().
C7_HaltedStepIsNoOp ==
    [][ /\ (lastOp' = "step" /\ (halted \/ prog = NoProgram))
            => /\ ret' = <<>>
               /\ UNCHANGED <<prog, tapes, state, steps, halted, halt_msg>>
        /\ (halted /\ ~halted') => lastOp' = "reset" ]_vars

\* a step taken after the engine paused at a breakpoint
C7_Witness ==
    /\ lastOp = "step"
    /\ ret = <<>>
    /\ halted
    /\ steps >= 1
    /\ halt_msg # <<>>
    /\ halt_msg[1] = "Paused at breakpoint (line "

\* C8: after reset(w, txt) on a bound engine, tape 0 holds exactly the
\* characters of w that are neither blank nor space, at their 0-based indices;
\* a second tape is blank; every head is at 0; current-state is the first
\* token of txt ("0" if none); steps is 0, halted is false, the reason empty.
C8_ResetPostcondition ==
    (lastOp = "reset" /\ prog # NoProgram) =>
        /\ origin # <<>>
        /\ LET w == origin[1]
               txt == origin[2]
               kept == {i \in 0..(Len(w) - 1) : w[i + 1] \notin {BLANK, " "}}
           IN  /\ Len(tapes) = prog.tapes
               /\ DOMAIN tapes[1].cells = kept
               /\ \A i \in kept : tapes[1].cells[i] = w[i + 1]
               /\ \A i \in 1..Len(tapes) : tapes[i].head = 0
               /\ Len(tapes) = 2 => DOMAIN tapes[2].cells = {}
               /\ IsFirstToken(txt, state)
        /\ steps = 0
        /\ ~halted
        /\ halt_msg = <<>>
        /\ ret = <<>>

\* a reset of a 2-tape engine that had run, with a word holding a space and
\* an initial-state field holding two tokens
C8_Witness ==
    /\ lastOp = "reset"
    /\ Len(tapes) = 2
    /\ origin = << <<" ", "1">>, <<" ", "q", "\t", "0">> >>
    /\ state = <<"q">>
    /\ DOMAIN tapes[1].cells = {1}

\* C9: a step that finds a rule in a running engine outside a halt state
\* writes, on every tape, the rule's write symbol at the pre-step head (the
\* symbol just read if the slot is `*`), changes no other cell, moves every
\* head by its move slot, sets current-state to the rule's next-state (kept
\* if `*`), adds exactly 1 to the step counter and returns the rule.
C9_StepAppliesRule ==
    [][ (lastOp' = "step" /\ StepApplies)
        => LET ins == get_next(prog, state, reads_of(tapes))[1]
           IN  /\ ret' = <<ins>>
               /\ Len(tapes') = Len(tapes)
               /\ \A i \in 1..Len(tapes) :
                    LET h == tapes[i].head
                    IN  /\ CellAt(tapes'[i], h) =
                             (IF ins.write[i] = "*" THEN CellAt(tapes[i], h)
                              ELSE ins.write[i])
                        /\ \A p \in (DOMAIN tapes[i].cells \cup DOMAIN tapes'[i].cells) \ {h} :
                             CellAt(tapes'[i], p) = CellAt(tapes[i], p)
                        /\ tapes'[i].head = h + Delta(ins.move[i])
               /\ state' = (IF ins.next_state = STAR THEN state ELSE ins.next_state)
               /\ steps' = steps + 1
               /\ prog' = prog ]_vars

\* a later 2-tape step that wrote blank on tape 1 and kept tape 2's symbol
C9_Witness ==
    /\ lastOp = "step"
    /\ ret # <<>>
    /\ Len(tapes) = 2
    /\ ret[1].write = <<"_", "*">>
    /\ steps >= 2
    /\ tapes[1].head # 0

\* C10: a step of a running engine outside a halt state whose lookup finds
\* no rule halts the engine with the no-matching-rule reason naming the state
\* and the symbols read, returns nothing, and leaves current-state, the step
\* counter and every tape unchanged.
C10_NoRuleHalts ==
    [][ (lastOp' = "step" /\ StepFindsNoRule)
        => /\ halted'
           /\ halt_msg' = <<"Halted (no rule for state '", state, "' reading ",
                             reads_of(tapes), ").">>
           /\ ret' = <<>>
           /\ UNCHANGED <<prog, tapes, state, steps>> ]_vars

\* a no-rule halt after at least one applied rule, on a non-blank cell
C10_Witness ==
    /\ lastOp = "step"
    /\ ret = <<>>
    /\ halted
    /\ steps >= 1
    /\ halt_msg = <<"Halted (no rule for state '", state, "' reading ",
                    reads_of(tapes), ").">>
    /\ reads_of(tapes)[1] # BLANK

----------------------------------------------------------------------------
(* Properties of the lookup, checked under LookupSpec *)

Asked1 == store.tapes = 1 /\ query # <<>>
Asked2 == store.tapes = 2 /\ query # <<>>

\* the four 1-tape keys of a query, in the order of the claim
Keys1(st, sym) == << <<st, <<sym>>>>, <<st, <<"*">>>>, <<STAR, <<sym>>>>, <<STAR, <<"*">>>> >>

\* C3: the 1-tape lookup for (state, sym) returns the rule list of the first
\* registered key among (state, sym), (state, *), (*, sym), (*, *), and the
\* empty result only if none of the four is registered.
C3_FirstRegisteredKeyWins ==
    Asked1 =>
        LET keys == Keys1(query[1], query[2][1])
            regs == {i \in 1..4 : KeyList(store, keys[i][1], keys[i][2]) # <<>>}
        IN  IF regs = {} THEN choices = <<>>
            ELSE LET i == CHOOSE i \in regs : \A j \in regs : i <= j
                 IN  /\ choices = KeyList(store, keys[i][1], keys[i][2])
                     /\ choices # <<>>

\* both (state, *) and (*, sym) are registered, (state, sym) is not, and the
\* lookup returned the (state, *) rule
C3_Witness ==
    /\ Asked1
    /\ query = <<Q0, <<"1">>>>
    /\ KeyList(store, Q0, <<"1">>) = <<>>
    /\ KeyList(store, Q0, <<"*">>) # <<>>
    /\ KeyList(store, STAR, <<"1">>) # <<>>
    /\ choices # <<>>
    /\ choices[1].cur_state = Q0
    /\ choices[1].read = <<"*">>

\* the read patterns that match (r1, r2) in one state's table
Patterns2(r1, r2) == {<<r1, r2>>, <<r1, "*">>, <<"*", r2>>, <<"*", "*">>}

\* the table of state st has a rule matching (r1, r2)
TableMatches(st, r1, r2) ==
    \E ins \in Registered(store) :
        ins.cur_state = st /\ ins.read \in Patterns2(r1, r2)

\* C4: the 2-tape lookup consults the rules of the wildcard state only if the
\* live state's own table matches at none of its three steps: any match in
\* the live state's table, even (*,*), wins over every rule of state `*`;
\* with no match in either table the result is empty.
C4_LiveStateBeforeWildcardState ==
    Asked2 =>
        LET st == query[1]
            r1 == query[2][1]
            r2 == query[2][2]
        IN  /\ TableMatches(st, r1, r2) =>
                /\ choices # <<>>
                /\ \A i \in 1..Len(choices) : choices[i].cur_state = st
            /\ (~TableMatches(st, r1, r2) /\ TableMatches(STAR, r1, r2)) =>
                /\ choices # <<>>
                /\ \A i \in 1..Len(choices) : choices[i].cur_state = STAR
            /\ (~TableMatches(st, r1, r2) /\ ~TableMatches(STAR, r1, r2)) =>
                choices = <<>>

\* the live state has only its (*,*) rule, the wildcard state has the exact
\* (r1, r2) rule, and the live state's rule is returned
C4_Witness ==
    /\ Asked2
    /\ query = <<Q0, <<"1", "_">>>>
    /\ KeyList(store, STAR, <<"1", "_">>) # <<>>
    /\ KeyList(store, Q0, <<"*", "*">>) # <<>>
    /\ \A ins \in Registered(store) : ins.cur_state = Q0 => ins.read = <<"*", "*">>
    /\ choices = KeyList(store, Q0, <<"*", "*">>)

\* the state whose table the lookup's deciding pass runs over
PassState == IF TableMatches(query[1], query[2][1], query[2][2]) THEN query[1] ELSE STAR

\* C5: in a pass with no exact (r1, r2) key the result is the (r1, *) list
\* followed by the (*, r2) list; with both keys registered the rule step()
\* applies is the first one registered under (r1, *); the (*, *) list is the
\* result only when that concatenation is empty.
C5_CombinedTierOrder ==
    Asked2 =>
        LET r1 == query[2][1]
            r2 == query[2][2]
            left == KeyList(store, PassState, <<r1, "*">>)
            right == KeyList(store, PassState, <<"*", r2>>)
        IN  KeyList(store, PassState, <<r1, r2>>) = <<>> =>
                /\ (left \o right # <<>>) => choices = left \o right
                /\ (left # <<>> /\ right # <<>>) => picked = <<left[1]>>
                /\ (left \o right = <<>>) => choices = KeyList(store, PassState, <<"*", "*">>)

\* (r1, *) and (*, r2) are both registered for the live state, (*, r2) first,
\* with no exact key, and the result lists the (r1, *) rule first
C5_Witness ==
    /\ Asked2
    /\ query = <<Q0, <<"1", "_">>>>
    /\ KeyList(store, Q0, <<"1", "_">>) = <<>>
    /\ KeyList(store, Q0, <<"1", "*">>) # <<>>
    /\ KeyList(store, Q0, <<"*", "_">>) # <<>>
    /\ KeyList(store, Q0, <<"*", "*">>) # <<>>
    /\ Len(choices) >= 2
    /\ picked # <<>>
    /\ picked[1].read = <<"1", "*">>

\* C6 (as claimed): the rule step() applies is the earliest registered
\* (smallest line) of all rules of the winning tier, the 2-tape combined tier
\* of (r1, *) and (*, r2) included.
C6_EarliestOfTier ==
    (query # <<>> /\ picked # <<>>) =>
        \A i \in 1..Len(choices) : picked[1].line_no <= choices[i].line_no

\* C6 (amended): the rule step() applies is the earliest registered of the
\* rules registered under its own (state, read-pattern) key, and every rule
\* of the winning tier has that key, except in the 2-tape combined tier:
\* there the applied rule is the earliest (r1, *) rule whenever (r1, *) is
\* registered, even if a (*, r2) rule was registered before it.
C6_EarliestOfKey ==
    (query # <<>> /\ picked # <<>>) =>
        LET ins == picked[1]
            sameKey(x) == x.cur_state = ins.cur_state /\ x.read = ins.read
        IN  /\ \A x \in Registered(store) : sameKey(x) => ins.line_no <= x.line_no
            /\ \A i \in 1..Len(choices) :
                 \/ sameKey(choices[i])
                 \/ /\ store.tapes = 2
                    /\ ins.read = <<query[2][1], "*">>
                    /\ choices[i].read = <<"*", query[2][2]>>
                    /\ choices[i].cur_state = ins.cur_state

\* two rules share the winning key, and a rule of the other key of the
\* combined tier was registered before both
C6_Witness ==
    /\ Asked2
    /\ picked # <<>>
    /\ picked[1].read = <<"1", "*">>
    /\ Len(KeyList(store, picked[1].cur_state, <<"1", "*">>)) >= 2
    /\ \E i \in 1..Len(choices) :
         choices[i].read = <<"*", "_">> /\ choices[i].line_no < picked[1].line_no

----------------------------------------------------------------------------
(* Halt labels, sparseness, reasons and configure, checked under Spec *)

\* st begins, in any letter case, with "halt"
HaltLabel(st) ==
    /\ Len(st) >= 4
    /\ st[1] \in {"h", "H"}
    /\ st[2] \in {"a", "A"}
    /\ st[3] \in {"l", "L"}
    /\ st[4] \in {"t", "T"}

\* C11: no rule is applied while current-state is a halt label: after every
\* step() a halt label as current-state implies halted; a step taken in a
\* halt label returns nothing and leaves tapes, state and step counter; and
\* the first step after a reset into a halt label halts with the
\* entered-halt-state reason, the step counter still 0.
C11_HaltLabelNeverRuns ==
    [][ lastOp' = "step" =>
          /\ HaltLabel(state') => halted'
          /\ HaltLabel(state) =>
                /\ ret' = <<>>
                /\ UNCHANGED <<tapes, state, steps>>
          /\ (HaltLabel(state) /\ lastOp = "reset" /\ prog # NoProgram) =>
                /\ halted'
                /\ halt_msg' = <<"Halted (entered state '", state, "').">>
                /\ steps' = 0 ]_vars

\* the first step after reset("1", "Halt") on a 2-tape engine
C11_Witness ==
    /\ lastOp = "step"
    /\ state = <<"H", "a", "l", "t">>
    /\ halted
    /\ steps = 0
    /\ halt_msg = <<"Halted (entered state '", state, "').">>
    /\ origin # <<>>
    /\ origin[1] = <<"1">>
    /\ Len(tapes) = 2
    /\ DOMAIN tapes[1].cells = {0}

\* no tape stores the blank symbol
Sparse(ts) == \A i \in 1..Len(ts) : \A p \in DOMAIN ts[i].cells : ts[i].cells[p] # "_"

\* C14: in every reachable state no tape's cell map holds the blank symbol;
\* and after a step writes blank on a tape (literally, or by a wildcard write
\* over a blank cell) the written position is absent from that tape's storage
\* and reads blank.
C14_Sparseness ==
    [][ /\ Sparse(tapes')
        /\ (lastOp' = "step" /\ ret' # <<>>) =>
              \A i \in 1..Len(tapes) :
                 LET h == tapes[i].head
                     w == IF ret'[1].write[i] = "*" THEN CellAt(tapes[i], h)
                          ELSE ret'[1].write[i]
                 IN  w = "_" => (h \notin DOMAIN tapes'[i].cells /\ CellAt(tapes'[i], h) = "_") ]_vars

\* a wildcard write over the blank cell loaded from the word "_1"
C14_Witness ==
    /\ lastOp = "step"
    /\ ret # <<>>
    /\ ret[1].write[1] = "*"
    /\ steps = 1
    /\ origin # <<>>
    /\ origin[1] = <<"_", "1">>
    /\ DOMAIN tapes[1].cells = {1}
    /\ Sparse(tapes)

\* no rule of p leads into a halt label
NoHaltTargets(p) == \A ins \in Registered(p) : ~HaltLabel(ins.next_state)

\* a run of a program without halt targets, reset into a state that is not a
\* halt label, which has halted
HaltFreeRunHalted ==
    /\ prog # NoProgram
    /\ NoHaltTargets(prog)
    /\ origin # <<>>
    /\ ~HaltLabel(InitialState(origin[2]))
    /\ halted

\* C16 (as claimed): a program none of whose rules leads into a halt label,
\* reset into a state that is not a halt label, halts only with the
\* no-matching-rule reason.
C16_OnlyNoRuleReason ==
    HaltFreeRunHalted => halt_msg[1] = "Halted (no rule for state '"

\* C16 (amended): such a run halts only with the no-matching-rule reason or,
\* when the applied rule carries the breakpoint flag, with the breakpoint
\* reason; the entered-halt-state reason is never reported and current-state
\* is never a halt label.
C16_NeverHaltStateReason ==
    HaltFreeRunHalted =>
        /\ halt_msg # <<>>
        /\ halt_msg[1] \in {"Halted (no rule for state '", "Paused at breakpoint (line "}
        /\ halt_msg[1] # "Halted (entered state '"
        /\ ~HaltLabel(state)

\* a halt-free run paused by a breakpoint rule
C16_Witness ==
    /\ HaltFreeRunHalted
    /\ lastOp = "step"
    /\ ret # <<>>
    /\ ret[1].breakpoint
    /\ halt_msg = <<"Paused at breakpoint (line ", ret[1].line_no + 1, ").">>

\* every tape of ts is blank with its head at 0
AllBlankAtZero(ts) ==
    \A i \in 1..Len(ts) : DOMAIN ts[i].cells = {} /\ ts[i].head = 0

\* C19: configure(p) binds p and replaces the tapes by exactly p.tapes blank
\* tapes with heads at 0, and leaves current-state, step counter, halted flag
\* and halt reason unchanged; a running engine stays running, so a step after
\* it reads blank tapes whatever the last reset loaded.
C19_ConfigureFrame ==
    [][ /\ lastOp' = "configure" =>
              /\ prog' # NoProgram
              /\ Len(tapes') = prog'.tapes
              /\ AllBlankAtZero(tapes')
              /\ UNCHANGED <<state, steps, halted, halt_msg>>
        /\ (lastOp = "configure" /\ lastOp' = "step" /\ ~halted /\ ~HaltLabel(state)) =>
              /\ AllBlankAtZero(tapes)
              /\ \/ ret' = <<>>
                 \/ \A i \in 1..Len(tapes) : ret'[1].read[i] \in {"_", "*"} ]_vars

\* a rule applied on the blank tapes of a configure that followed a run of
\* two steps, without a reset in between
C19_Witness ==
    /\ lastOp = "step"
    /\ origin = <<>>
    /\ ret # <<>>
    /\ steps = 3
    /\ prog # NoProgram

\* the engine as it is before any rule can apply: halted, no step counted,
\* the tapes blank
Unstarted == halted = TRUE /\ steps = 0 /\ AllBlankAtZero(tapes)

\* C20: a new engine is halted with step counter 0; until a reset() on a
\* bound program, configure leaves it halted and every step() returns
\* nothing and leaves the step counter at 0 and the tapes blank.
C20_NoStepBeforeReset ==
    /\ Unstarted
    /\ [][ (Unstarted /\ ~(lastOp' = "reset" /\ prog # NoProgram)) =>
              /\ Unstarted'
              /\ lastOp' = "step" => ret' = <<>> ]_vars

\* a step on a configured engine that has never been reset
C20_Witness ==
    /\ lastOp = "step"
    /\ prog # NoProgram
    /\ halt_msg = <<"Load or type a program, then Reset.">>
    /\ Unstarted
    /\ ret = <<>>

----------------------------------------------------------------------------
(* The parser: Program.parse_from_text.  A program text is a sequence of   *)
(* characters, its lines separated by "\n".                                *)

\* the characters of s before the first c (all of s if it holds no c)
BeforeChar(s, c) ==
    LET at == {i \in 1..Len(s) : s[i] = c}
    IN  IF at = {} THEN s
        ELSE SubSeq(s, 1, (CHOOSE i \in at : \A j \in at : i <= j) - 1)

\* str.splitlines()
RECURSIVE splitlines(_)
splitlines(s) ==
    IF s = <<>> THEN <<>>
    ELSE LET ln == BeforeChar(s, "\n")
         IN  <<ln>> \o splitlines(SubSeq(s, Len(ln) + 2, Len(s)))

\* Program._strip_comment
strip_comment(line) == Strip(BeforeChar(line, ";"))

DirectiveWords ==
    { <<"t","a","p","e","s">>, <<"b","l","a","n","k">>, <<"s","t","a","r","t">>,
      <<"i","n","i","t","i","a","l","_","t","a","p","e">>,
      <<"i","n","i","t","i","a","l","_","s","t","a","t","e">>,
      <<"n","o","n","d","e","t">>, <<"o","n","e","w","a","y">> }

\* directive_re.match(s); the pattern ignores case
IsDirective(s) ==
    LET t == Lower(LStrip(s))
    IN  \E kw \in DirectiveWords :
            /\ StartsWith(t, kw)
            /\ LET rest == LStrip(SubSeq(t, Len(kw) + 1, Len(t)))
               IN  rest # <<>> /\ rest[1] = ":"

Directions == {<<"l">>, <<"r">>, <<"*">>}

ParseError(i, what) == <<"Line ", i + 1, what>>

\* the 1-tape branch of the loop body, storing the 1-based line number
ParseRule1_OneBased(toks, i) ==
    IF Len(toks) \notin {5, 6}
    THEN [err |-> ParseError(i, ": expected 5 or 6 tokens for 1-tape rule"), ins |-> <<>>]
    ELSE IF Len(toks[2]) # 1 \/ Len(toks[3]) # 1
    THEN [err |-> ParseError(i, ": symbols must be single characters"), ins |-> <<>>]
    ELSE IF Lower(toks[4]) \notin Directions
    THEN [err |-> ParseError(i, ": direction must be l, r, or *"), ins |-> <<>>]
    ELSE [err |-> <<>>,
          ins |-> <<Instruction(toks[1], <<toks[2][1]>>, <<toks[3][1]>>,
                                <<Lower(toks[4])[1]>>, toks[5],
                                Len(toks) = 6 /\ toks[6] = <<"!">>, i + 1)>>]

\* the 1-tape branch of the loop body of parse_from_text, on the tokens of
\* line i (0-based): the error it raises, or the Instruction it registers
ParseRule1(toks, i) ==
    IF Len(toks) \notin {5, 6}
    THEN [err |-> ParseError(i, ": expected 5 or 6 tokens for 1-tape rule"), ins |-> <<>>]
    ELSE IF Len(toks[2]) # 1 \/ Len(toks[3]) # 1
    THEN [err |-> ParseError(i, ": symbols must be single characters"), ins |-> <<>>]
    ELSE IF Lower(toks[4]) \notin Directions
    THEN [err |-> ParseError(i, ": direction must be l, r, or *"), ins |-> <<>>]
    ELSE [err |-> <<>>,
          ins |-> <<Instruction(toks[1], <<toks[2][1]>>, <<toks[3][1]>>,
                                <<Lower(toks[4])[1]>>, toks[5],
                                Len(toks) = 6 /\ toks[6] = <<"!">>, i)>>]

\* the 2-tape branch of the loop body of parse_from_text
ParseRule2(toks, i) ==
    IF Len(toks) \notin {8, 9}
    THEN [err |-> ParseError(i, ": expected 8 or 9 tokens for 2-tape rule"), ins |-> <<>>]
    ELSE IF \E k \in 2..5 : Len(toks[k]) # 1
    THEN [err |-> ParseError(i, ": symbols must be single characters"), ins |-> <<>>]
    ELSE IF Lower(toks[6]) \notin Directions \/ Lower(toks[7]) \notin Directions
    THEN [err |-> ParseError(i, ": direction must be l, r, or *"), ins |-> <<>>]
    ELSE [err |-> <<>>,
          ins |-> <<Instruction(toks[1], <<toks[2][1], toks[3][1]>>,
                                <<toks[4][1], toks[5][1]>>,
                                <<Lower(toks[6])[1], Lower(toks[7])[1]>>, toks[8],
                                Len(toks) = 9 /\ toks[9] = <<"!">>, i)>>]

\* Program.clear
clear(p) == [p EXCEPT !.map1 = EmptyMap, !.map2 = EmptyMap]

\* the loop of parse_from_text from line i (0-based) on: the Program it
\* leaves (prog) and the error it raises (err, <<>> if none)
RECURSIVE ParseLines(_, _, _)
ParseLines(p, lines, i) ==
    IF i >= Len(lines) THEN [prog |-> p, err |-> <<>>]
    ELSE LET raw == lines[i + 1]
         IN  IF IsDirective(Strip(raw)) THEN ParseLines(p, lines, i + 1)
             ELSE LET line == strip_comment(raw)
                  IN  IF line = <<>> THEN ParseLines(p, lines, i + 1)
                      ELSE LET toks == Split(line)
                               r == IF p.tapes = 1 THEN ParseRule1(toks, i)
                                    ELSE ParseRule2(toks, i)
                           IN  IF r.err # <<>> THEN [prog |-> p, err |-> r.err]
                               ELSE ParseLines(add(p, r.ins[1]), lines, i + 1)

\* Program.parse_from_text
parse_from_text(p, t) == ParseLines(clear(p), splitlines(t), 0)

----------------------------------------------------------------------------
(* The program texts the parser is run on *)

RECURSIVE Join(_, _)
Join(parts, sep) ==
    IF parts = <<>> THEN <<>>
    ELSE IF Len(parts) = 1 THEN parts[1]
    ELSE parts[1] \o <<sep>> \o Join(Tail(parts), sep)

\* a line of one-character tokens separated by single spaces
Spaced(cs) == Join([k \in 1..Len(cs) |-> <<cs[k]>>], " ")

LineRule1 == Spaced(<<"0", "1", "1", "r", "0">>)
LineRule1Bp == <<" ">> \o Join(<< <<"0">>, <<"_">>, <<"_">>, <<"*">>, HALT, <<"!">> >>, " ")
LineRule1Extra == Spaced(<<"q", "1", "0", "L", "0", "x">>)
LineLongSymbol == Join(<< <<"0">>, <<"a", "b">>, <<"1">>, <<"r">>, <<"0">> >>, " ")
LineBadMove == Spaced(<<"0", "1", "1", "x", "0">>)
LineComment == <<" ", ";", " ", "c">>
LineDirective == <<"T", "a", "p", "e", "s", " ", ":", " ", "2">>
LineRule2 == Spaced(<<"0", "1", "_", "*", "1", "R", "r", "0">>) \o <<" ", ";", "c">>
LineRule2Extra == Spaced(<<"0", "1", "_", "*", "1", "r", "r", "0", "x">>)

Lines ==
    { LineRule1, LineRule1Bp, LineRule1Extra, LineLongSymbol, LineBadMove,
      LineComment, LineDirective, LineRule2, LineRule2Extra }

RECURSIVE LineSeqsUpTo(_)
LineSeqsUpTo(n) ==
    IF n = 0 THEN {<<>>}
    ELSE LET shorter == LineSeqsUpTo(n - 1)
         IN  shorter \cup {Append(ls, l) : ls \in shorter, l \in Lines}

Texts == {Join(ls, "\n") : ls \in LineSeqsUpTo(MaxLines)}

----------------------------------------------------------------------------
(* The parser specification: a Program is created and texts are parsed     *)
(* into it, one after another                                              *)

ParseInit ==
    /\ MachineInit
    /\ store \in {NewProgram(1), NewProgram(2)}
    /\ query = <<>>
    /\ choices = <<>>
    /\ picked = <<>>
    /\ text = <<>>
    /\ source_text = <<>>
    /\ raised = <<>>
    /\ AppInit

\* a call of Program.parse_from_text on store
Parse(t) ==
    LET r == parse_from_text(store, t)
    IN  /\ text' = t
        /\ source_text' = t
        /\ store' = r.prog
        /\ raised' = r.err
        /\ lastOp' = "parse"
        /\ UNCHANGED <<prog, tapes, state, steps, halted, halt_msg, ret, origin>>
        /\ UNCHANGED <<query, choices, picked>>
        /\ UNCHANGED appVars

DoParse == \E t \in Texts : Parse(t)

ParseNext == DoParse

ParseSpec == ParseInit /\ [][ParseNext]_vars

----------------------------------------------------------------------------
(* Parse failures, the breakpoint marker and line numbers, checked under   *)
(* ParseSpec                                                               *)

\* the lines of the text last parsed
ParsedLines == splitlines(text)

\* the tokens of a rule line
TokensOf(raw) == Split(strip_comment(raw))

\* raw is a rule line of full length plus one trailing token that is not
\* the breakpoint marker
HasStrayToken(n, raw) ==
    LET toks == TokensOf(raw)
    IN  /\ ~IsDirective(Strip(raw))
        /\ Len(toks) = (IF n = 1 THEN 6 ELSE 9)
        /\ toks[Len(toks)] # <<"!">>

\* ins carries the states, the first symbol read and the marker of line raw
FromLine(ins, raw) ==
    LET toks == TokensOf(raw)
        n == Len(ins.read)
    IN  /\ ~IsDirective(Strip(raw))
        /\ Len(toks) \in {3 * n + 2, 3 * n + 3}
        /\ ins.cur_state = toks[1]
        /\ ins.read[1] = toks[2][1]
        /\ ins.next_state = toks[3 * n + 2]
        /\ ins.breakpoint = (toks[Len(toks)] = <<"!">>)

\* C12: a failed parse never leaves the Rule Store partially populated:
\* whenever parse_from_text raises, the Program holds no Instruction of the
\* rejected text.
C12_NoPartialPopulation ==
    (lastOp = "parse" /\ raised # <<>>) => Registered(store) = {}

\* C13: a 1-tape line of 6 tokens (a 2-tape line of 9 tokens) is accepted
\* only if its last token is "!": a line whose extra token is anything else
\* is never registered as a rule.
C13_StrayTokenRejected ==
    lastOp = "parse" =>
        \A k \in 1..Len(ParsedLines) :
            HasStrayToken(store.tapes, ParsedLines[k]) =>
                ~\E ins \in Registered(store) : ins.line_no = k - 1

\* C18 as stated: every Instruction the parser produces records the 1-based
\* number of the line it was parsed from.
C18_LineNoOneBased ==
    lastOp = "parse" =>
        \A ins \in Registered(store) :
            /\ ins.line_no \in 1..Len(ParsedLines)
            /\ FromLine(ins, ParsedLines[ins.line_no])

\* C18 amended: every Instruction the parser produces records the 0-based
\* index of its line among all the lines of the text, skipped lines counted,
\* and the breakpoint reason reports that index plus one, the 1-based number
\* of the line.
C18_LineNoZeroBased ==
    lastOp = "parse" =>
        \A ins \in Registered(store) :
            /\ ins.line_no + 1 \in 1..Len(ParsedLines)
            /\ FromLine(ins, ParsedLines[ins.line_no + 1])
            /\ \A other \in Registered(store) :
                   other.line_no = ins.line_no => other = ins
            /\ ins.breakpoint =>
                   AppliedMsg(ins, Q0, <<>>)
                       = <<"Paused at breakpoint (line ", ins.line_no + 1, ").">>

\* a breakpoint rule parsed from the second line of a text whose first line
\* is skipped
C18_Witness ==
    /\ lastOp = "parse"
    /\ raised = <<>>
    /\ Len(ParsedLines) = 2
    /\ ParsedLines[1] \in {LineComment, LineDirective}
    /\ \E ins \in Registered(store) : ins.breakpoint /\ ins.line_no = 1

----------------------------------------------------------------------------
(* The App: the handlers of the Step, Run and Reset buttons, the timer     *)
(* callback, and the edits that mark the program as needing compilation.   *)
(* A handler runs to completion on the Tk event loop, so each is one       *)
(* action.                                                                 *)

\* str.rstrip("\n")
RECURSIVE RStripNewlines(_)
RStripNewlines(s) ==
    IF s # <<>> /\ s[Len(s)] = "\n" THEN RStripNewlines(SubSeq(s, 1, Len(s) - 1)) ELSE s

\* self.source.get("1.0", "end").rstrip("\n"): Tk appends a newline to the
\* content of the widget
EditorText(src) == RStripNewlines(src \o <<"\n">>)

\* the except branch installing whatever the parser registered before it
\* raised
CompileOutcome_InstallsPartial(m, d, r) ==
    IF r.err # <<>>
    THEN [ok |-> FALSE, m |-> configure(m, r.prog), dirty |-> d, err |-> r.err,
          ret |-> <<>>, configured |-> TRUE]
    ELSE [ok |-> TRUE, m |-> configure(m, r.prog), dirty |-> FALSE, err |-> <<>>,
          ret |-> <<>>, configured |-> TRUE]

\* App._compile_if_needed from the try statement on, r being what
\* parse_from_text did: the Program it leaves and the error it raised
CompileOutcome(m, d, r) ==
    IF r.err # <<>>
    THEN [ok |-> FALSE, m |-> m, dirty |-> d, err |-> r.err,
          ret |-> <<>>, configured |-> FALSE]
    ELSE [ok |-> TRUE, m |-> configure(m, r.prog), dirty |-> FALSE, err |-> <<>>,
          ret |-> <<>>, configured |-> TRUE]

\* what a handler has done when it returns having done nothing
Nothing(m, d) ==
    [ok |-> TRUE, m |-> m, dirty |-> d, err |-> <<>>, ret |-> <<>>, configured |-> FALSE]

\* App._compile_if_needed on engine m, dirty flag d, editor content src and
\* tape count n: its result (ok), the engine and the flag it leaves, the
\* error it shows (err) and whether it called configure; ret is the
\* Instruction the handler around it applies
compile_if_needed(m, d, src, n) ==
    IF ~d /\ m.prog # NoProgram THEN Nothing(m, d)
    ELSE CompileOutcome(m, d, parse_from_text(NewProgram(n), EditorText(src)))

\* c with the outcome r of Machine.step
Stepped(c, r) == [c EXCEPT !.m = r.m, !.ret = r.ret]

\* App.on_step after its call of _compile_if_needed, which did c
AfterCompile(c) ==
    IF ~c.ok \/ c.m.prog = NoProgram \/ c.m.halted THEN c
    ELSE Stepped(c, step(c.m))

\* App.on_step after its _stop()
on_step(m, d, src, n) == AfterCompile(compile_if_needed(m, d, src, n))

\* App._run_loop; it schedules itself again iff it leaves the engine not
\* halted
run_loop(m, d, src, n) ==
    IF m.halted THEN Nothing(m, d) ELSE on_step(m, d, src, n)

\* the reset the tapes stem from, after a handler that reset the engine with
\* args (<<>> if it did not) and may have called configure
OriginAfter(args, configured) ==
    IF args # <<>> THEN args ELSE IF configured THEN <<>> ELSE origin

\* the engine, the dirty flag and the error shown become what handler
\* outcome h says
EngineBecomes(h, args) ==
    /\ MachBecomes(h.m)
    /\ dirty' = h.dirty
    /\ raised' = h.err
    /\ ret' = h.ret
    /\ origin' = OriginAfter(args, h.configured)

\* a key released in the editor, or a file loaded into it: the content
\* becomes t
EditSource(t) ==
    /\ source' = t
    /\ dirty' = TRUE
    /\ lastOp' = "edit"
    /\ raised' = <<>>
    /\ UNCHANGED <<prog, tapes, state, steps, halted, halt_msg, ret, origin>>
    /\ UNCHANGED lookupVars
    /\ UNCHANGED <<text, source_text>>
    /\ UNCHANGED <<job, pending, btn_run, tapes_var>>

\* a tape count selected in the combobox
SelectTapes(n) ==
    /\ tapes_var' = n
    /\ dirty' = TRUE
    /\ lastOp' = "select"
    /\ raised' = <<>>
    /\ UNCHANGED <<prog, tapes, state, steps, halted, halt_msg, ret, origin>>
    /\ UNCHANGED lookupVars
    /\ UNCHANGED <<text, source_text>>
    /\ UNCHANGED <<job, pending, btn_run, source>>

\* after_cancel(self._job) in App._stop: the callbacks left scheduled out
\* of p when _job is j; cancelling an id that has fired changes nothing
Cancelled(p, j) == {id \in p : j # <<id>>}

\* the id self.after gives a new callback: one that no scheduled callback has
NewId(p) == CHOOSE n \in 1..(Cardinality(p) + 1) : n \notin p /\ \A k \in 1..(n - 1) : k \in p

\* App.on_reset after its call of _compile_if_needed, which did c
ResetAfter(c, w, txt) ==
    IF c.ok THEN EngineBecomes([c EXCEPT !.m = reset(c.m, w, txt)], <<w, txt>>)
    ELSE EngineBecomes(c, <<>>)

\* App.on_reset with input_var = w and init_state_var = txt
OnReset(w, txt) ==
    /\ job' = <<>>
    /\ pending' = Cancelled(pending, job)
    /\ btn_run' = "Run"
    /\ ResetAfter(compile_if_needed(Mach, dirty, source, tapes_var), w, txt)
    /\ lastOp' = "on_reset"
    /\ UNCHANGED lookupVars
    /\ UNCHANGED <<text, source_text>>
    /\ UNCHANGED <<source, tapes_var>>

\* App.on_step
OnStep ==
    /\ halted \/ steps < MaxSteps
    /\ job' = <<>>
    /\ pending' = Cancelled(pending, job)
    /\ btn_run' = "Run"
    /\ EngineBecomes(on_step(Mach, dirty, source, tapes_var), <<>>)
    /\ lastOp' = "on_step"
    /\ UNCHANGED lookupVars
    /\ UNCHANGED <<text, source_text>>
    /\ UNCHANGED <<source, tapes_var>>

\* _run_loop has run and did l, its _stop() leaving the callbacks p
\* scheduled: it schedules itself again iff the engine is not halted; the
\* button reads "Run" since on_step and _run_loop end every path through
\* _stop()
LoopEnds(l, args, p) ==
    /\ EngineBecomes(l, args)
    /\ job' = IF l.m.halted THEN <<>> ELSE <<NewId(p)>>
    /\ pending' = IF l.m.halted THEN p ELSE p \cup {NewId(p)}
    /\ btn_run' = "Run"

\* App.on_run_pause, no callback being scheduled, after its call of
\* _compile_if_needed, which did c
RunAfter(c, w, txt) ==
    IF ~c.ok \/ c.m.prog = NoProgram
    THEN /\ EngineBecomes(c, <<>>)
         /\ UNCHANGED <<job, pending, btn_run>>
    ELSE LoopEnds([run_loop(IF c.m.halted THEN reset(c.m, w, txt) ELSE c.m,
                            c.dirty, source, tapes_var)
                      EXCEPT !.configured = c.configured],
                  IF c.m.halted THEN <<w, txt>> ELSE <<>>,
                  Cancelled(pending, job))

\* App.on_run_pause with input_var = w and init_state_var = txt
OnRunPause(w, txt) ==
    /\ halted \/ steps < MaxSteps
    /\ IF job # <<>>
       THEN /\ job' = <<>>
            /\ pending' = Cancelled(pending, job)
            /\ btn_run' = "Run"
            /\ raised' = <<>>
            /\ ret' = <<>>
            /\ UNCHANGED <<prog, tapes, state, steps, halted, halt_msg, origin>>
            /\ UNCHANGED dirty
       ELSE RunAfter(compile_if_needed(Mach, dirty, source, tapes_var), w, txt)
    /\ lastOp' = "on_run_pause"
    /\ UNCHANGED lookupVars
    /\ UNCHANGED <<text, source_text>>
    /\ UNCHANGED <<source, tapes_var>>

\* the scheduled App._run_loop callback fires
RunLoop ==
    /\ halted \/ steps < MaxSteps
    /\ \E fired \in pending :
           LoopEnds(run_loop(Mach, dirty, source, tapes_var), <<>>,
                    Cancelled(pending \ {fired}, job))
    /\ lastOp' = "run_loop"
    /\ UNCHANGED lookupVars
    /\ UNCHANGED <<text, source_text>>
    /\ UNCHANGED <<source, tapes_var>>

\* the contents given to the editor
AppTexts ==
    { DEFAULT_PROGRAM,
      Join(<<LineRule1, LineBadMove>>, "\n"),
      Join(<<LineComment, LineRule1Bp, LineRule1>>, "\n"),
      Join(<<LineRule2>>, "\n") \o <<"\n", "\n">> }

\* the contents given to the input field
AppWords == {<<>>, <<"1">>, <<"1", "0">>}

\* the contents given to the initial-state field
AppStates == {<<"0">>, <<" ", "q">>}

DoEditSource == \E t \in AppTexts : EditSource(t)

DoSelectTapes == \E n \in {1, 2} : SelectTapes(n)

DoOnReset == \E w \in AppWords, txt \in AppStates : OnReset(w, txt)

DoOnRunPause == \E w \in AppWords, txt \in AppStates : OnRunPause(w, txt)

AppNext ==
    DoEditSource \/ DoSelectTapes \/ DoOnReset \/ OnStep \/ DoOnRunPause \/ RunLoop

AppSpec == Init /\ [][AppNext]_vars

----------------------------------------------------------------------------
(* Failed compiles, checked under AppSpec *)

\* the program needs compiling and the parser rejects the editor text
CompileFails ==
    /\ dirty \/ prog = NoProgram
    /\ parse_from_text(NewProgram(tapes_var), EditorText(source)).err # <<>>

\* the handler that runs reaches _compile_if_needed
HandlerCompiles ==
    \/ lastOp' \in {"on_step", "on_reset"}
    \/ lastOp' = "on_run_pause" /\ job = <<>>
    \/ lastOp' = "run_loop" /\ ~halted

\* C17: when compiling the editor text fails with a parse error, the
\* engine's bound Program, its tapes and its execution state are what they
\* were before the attempt, the program stays marked as needing
\* recompilation, and the Step, Run or Reset that attempted the compile
\* applies no instruction and performs no reset; the error is shown.
C17_FailedCompileLeavesEngine ==
    [][(CompileFails /\ HandlerCompiles) =>
          /\ UNCHANGED <<prog, tapes, state, steps, halted, halt_msg>>
          /\ dirty' = TRUE
          /\ ret' = <<>>
          /\ raised' = parse_from_text(NewProgram(tapes_var), EditorText(source)).err]_vars

\* a running engine whose editor text was replaced by one with a valid first
\* line and a rejected second line, after a Step on it
C17_Witness ==
    /\ lastOp \in {"on_step", "on_reset", "on_run_pause", "run_loop"}
    /\ raised # <<>>
    /\ source = Join(<<LineRule1, LineBadMove>>, "\n")
    /\ dirty = TRUE
    /\ prog # NoProgram
    /\ halted = FALSE
    /\ steps > 0

----------------------------------------------------------------------------
(* The run/pause scheduler, checked under AppSpec.  Every handler and      *)
(* every callback is one action, so every state is one in which they have  *)
(* run to completion.                                                      *)

\* at most one callback is scheduled, it is the one _job refers to, and none
\* is scheduled while the engine is halted
SchedulerJobs ==
    /\ Cardinality(pending) <= 1
    /\ pending = Range(job)
    /\ pending # {} => halted = FALSE

\* the text the button is left with by every handler
ButtonReadsRun == btn_run = "Run"

\* C21: after every user event (Run/Pause, Step, Reset) and every timer
\* callback has run to completion, at most one automatic-step timer job is
\* pending, a job is pending only if the engine is not halted, and the
\* Run/Pause button reads "Pause" exactly when a job is pending (and "Run"
\* otherwise).
C21_SchedulerInvariant ==
    /\ Cardinality(pending) <= 1
    /\ pending # {} => halted = FALSE
    /\ btn_run = "Pause" <=> pending # {}
    /\ btn_run = "Run" <=> pending = {}

====
